---- MODULE Spec2Model ----
(***************************************************************************)
(* Model of the announcement-funnel bot: main() and send_funnel() of       *)
(* bot_funnel.py, load_users() and html_to_png() of utils.py and           *)
(* load_profile() of config.py.                                            *)
(*                                                                         *)
(* One run of the program is one behaviour.  The command line, the         *)
(* environment, the recipient table and the profile files are chosen in    *)
(* Init; the outcome of every call into an external library (template      *)
(* engine, browser renderer, Pillow, Telegram) is chosen when the call is  *)
(* made.                                                                   *)
(***************************************************************************)
EXTENDS Integers, Sequences, FiniteSets, TLC

(***************************************************************************)
(* Bounds of the model.                                                    *)
(***************************************************************************)
MaxUsers == 2      \* rows in users.csv
MaxText == 2       \* glyphs in a call-to-action text of a profile
MaxFaults == 1     \* failures in one run: a render, a rasterization (the primary
                   \* renderer, with or without the fallback), a transmission

(***************************************************************************)
(* Program constants (config.py).                                          *)
(***************************************************************************)
\* another order of the stages
STAGES_Reordered == <<"solution", "interest", "deadline">>

STAGES == <<"interest", "solution", "deadline">>
VARIANTS == <<"a", "b", "c">>
SEND_DELAY == 1

VariantSet == {VARIANTS[i] : i \in 1..Len(VARIANTS)}

\* a list that forgets the name column
required_fields_NoName == {"role", "company", "telegram_id"}

\* required_fields of load_users
required_fields == {"name", "role", "company", "telegram_id"}
\* the columns of the input table
AllColumns == {"name", "role", "company", "telegram_id", "variant"}

(***************************************************************************)
(* int(): conversion of one telegram_id cell, as astype(int) applies it.   *)
(* A cell is the text of the CSV field, a sequence of characters.  The     *)
(* empty cell (NaN) and a cell with a non-digit have no integer value.     *)
(***************************************************************************)
Digits == <<"0", "1", "2", "3", "4", "5", "6", "7", "8", "9">>

DigitValue(ch) == (CHOOSE i \in 1..10 : Digits[i] = ch) - 1

IsDigit(ch) == \E i \in 1..10 : Digits[i] = ch

CanConvert(cell) == Len(cell) > 0 /\ \A i \in 1..Len(cell) : IsDigit(cell[i])

RECURSIVE ToInt(_)
ToInt(cell) ==
    IF Len(cell) = 0 THEN 0
    ELSE 10 * ToInt(SubSeq(cell, 1, Len(cell) - 1)) + DigitValue(cell[Len(cell)])

(***************************************************************************)
(* The recipient table.  A row carries a cell for every column; cells of   *)
(* a column the file does not have are blank and never read.               *)
(***************************************************************************)
Blank == [name |-> "", role |-> "", company |-> "", telegram_id |-> <<>>, variant |-> ""]

SampleRows ==
    { [name |-> "Anna",  role |-> "CEO", company |-> "Acme", telegram_id |-> <<"5", "5">>, variant |-> "b"],
      [name |-> "Boris", role |-> "CTO", company |-> "Acme", telegram_id |-> <<"7">>,      variant |-> "zz"],
      [name |-> "Gleb",  role |-> "PM",  company |-> "Init", telegram_id |-> <<"7", "x">>, variant |-> "a"],
      [name |-> "Dina",  role |-> "HR",  company |-> "Init", telegram_id |-> <<>>,         variant |-> "a"] }

ColumnSets ==
    { AllColumns,
      AllColumns \ {"variant"},
      AllColumns \ {"telegram_id"},
      AllColumns \ {"name"},
      AllColumns \ {"role", "company"} }

\* the row as the file with these columns holds it
Project(r, cols) == [c \in AllColumns |-> IF c \in cols THEN r[c] ELSE Blank[c]]

RowSeqs(n) == UNION {[1..k -> SampleRows] : k \in 0..n}

\* the rows of the reference table
ReferenceRows ==
    << [name |-> "Anna",  role |-> "CEO", company |-> "Acme", telegram_id |-> <<"5", "5">>, variant |-> "b"],
       [name |-> "Boris", role |-> "CTO", company |-> "Acme", telegram_id |-> <<"7">>,      variant |-> "zz"] >>

Table(cols, rs) ==
    [file |-> "ok", columns |-> cols, rows |-> [i \in 1..Len(rs) |-> Project(rs[i], cols)]]

\* users.csv: every sequence of rows under the full header, the reference
\* rows and no rows under every header, no file, a file of zero bytes
Tables ==
    { Table(AllColumns, rs) : rs \in RowSeqs(MaxUsers) }
    \cup { Table(cols, rs) : cols \in ColumnSets, rs \in {ReferenceRows, <<>>} }
    \cup { [file |-> f, columns |-> {}, rows |-> <<>>] : f \in {"absent", "empty"} }

(***************************************************************************)
(* load_users (utils.py).  The result is either the data frame or the      *)
(* exception the function raises.                                          *)
(***************************************************************************)
Raised(e) == [ok |-> FALSE, error |-> e, df |-> <<>>]

Returned(d) == [ok |-> TRUE, error |-> "", df |-> d]

\* df['variant'] after lines 28-29 and 36-39
VariantCell(t, i) == IF "variant" \in t.columns THEN t.rows[i].variant ELSE "a"

\* the cell is kept as it was read
CoerceVariant_Keep(v) == v

\* lines 36-39: a value outside VARIANTS becomes 'a'
CoerceVariant(v) == IF v \in VariantSet THEN v ELSE "a"

\* df['telegram_id'].astype(int) raises when one cell has no integer value
AstypeIntFails(t) == \E i \in 1..Len(t.rows) : ~CanConvert(t.rows[i].telegram_id)

LoadedRow(t, i) ==
    [name |-> t.rows[i].name, role |-> t.rows[i].role, company |-> t.rows[i].company,
     telegram_id |-> ToInt(t.rows[i].telegram_id),
     variant |-> CoerceVariant(VariantCell(t, i))]

\* rows that do not convert are dropped instead of failing the load
load_users_DropBad(t) ==
    IF t.file = "absent" THEN Raised("FileNotFoundError")
    ELSE IF t.file = "empty" THEN Raised("Exception")
    ELSE IF required_fields \ t.columns # {} THEN Raised("Exception")
    ELSE LET good == SelectSeq([i \in 1..Len(t.rows) |-> i],
                               LAMBDA i : CanConvert(t.rows[i].telegram_id))
         IN Returned([k \in 1..Len(good) |-> LoadedRow(t, good[k])])

load_users(t) ==
    IF t.file = "absent" THEN Raised("FileNotFoundError")
    ELSE IF t.file = "empty" THEN Raised("Exception")            \* read_csv: no columns to parse
    ELSE IF required_fields \ t.columns # {} THEN Raised("Exception")
    ELSE IF AstypeIntFails(t) THEN Raised("Exception")
    ELSE Returned([i \in 1..Len(t.rows) |-> LoadedRow(t, i)])

(***************************************************************************)
(* Branding profiles (config.py).  A profile is kept as the kind of value  *)
(* yaml.safe_load returned, its brand name, the sections it has and the    *)
(* keys of its brand, colors and content sections.  brand_logo is the      *)
(* value of brand.logo as the sequence of its path components, <<>> when   *)
(* the key is absent.                                                      *)
(***************************************************************************)
DefaultSections == {"brand", "colors", "fonts", "image", "card", "cta", "tone", "social", "content"}

DefaultColors ==
    {"primary", "secondary", "accent", "background", "background_alt", "text_primary",
     "text_secondary", "text_light", "button_bg", "button_text", "button_hover", "border", "shadow"}

DefaultProfile ==
    [kind |-> "dict", brand_name |-> "Poznay Sebya",
     brand_logo |-> <<"POZNAY SEBYA / KNOW YOURSELF">>,
     sections |-> DefaultSections,
     brand |-> {"name", "logo", "tagline", "website", "telegram"},
     colors |-> DefaultColors,
     content |-> {"interest", "solution", "deadline"}]

\* values a profile file can parse to
CustomYaml ==
    [kind |-> "dict", brand_name |-> "Custom",
     brand_logo |-> <<"assets", "logo.png">>,
     sections |-> {"brand", "colors", "fonts", "image", "cta", "tone", "content"},
     brand |-> {"name", "logo"},
     colors |-> {"primary", "background", "text_primary"},
     content |-> {"interest", "solution", "deadline"}]

WellnessYaml ==
    [kind |-> "dict", brand_name |-> "Wellness",
     brand_logo |-> <<"assets", "wellness.png">>,
     sections |-> DefaultSections,
     brand |-> {"name", "logo", "tagline"},
     colors |-> DefaultColors,
     content |-> {"interest", "solution", "deadline"}]

\* a mapping with a brand name and one colour, nothing else
PartialYaml ==
    [kind |-> "dict", brand_name |-> "Partial",
     brand_logo |-> <<>>,
     sections |-> {"brand", "colors"},
     brand |-> {"name"},
     colors |-> {"primary"},
     content |-> {}]

\* an empty document: None
EmptyYaml == [kind |-> "none", brand_name |-> "", brand_logo |-> <<>>, sections |-> {}, brand |-> {}, colors |-> {}, content |-> {}]

\* a document that is no mapping
ListYaml == [kind |-> "list", brand_name |-> "", brand_logo |-> <<>>, sections |-> {}, brand |-> {}, colors |-> {}, content |-> {}]

required_sections == {"brand", "colors", "fonts", "image", "cta", "tone", "content"}

required_colors == {"primary", "background", "text_primary"}

\* is_valid of validate_profile (utils.py); on None "section not in profile"
\* raises, on a list every section is reported missing
validate_profile(p) ==
    /\ p.kind = "dict"
    /\ required_sections \subseteq p.sections
    /\ "brand" \in p.sections => {"name", "logo"} \subseteq p.brand
    /\ "colors" \in p.sections => required_colors \subseteq p.colors
    /\ "content" \in p.sections => {"interest", "solution", "deadline"} \subseteq p.content

\* what open() + yaml.safe_load do with a file
Absent    == [state |-> "absent",    value |-> EmptyYaml]
Malformed == [state |-> "malformed", value |-> EmptyYaml]
Holds(v)  == [state |-> "ok",        value |-> v]

\* --brand values: a profile name, or a path ending in .yaml / .yml
BrandArgs == {"custom", "ghost", "my.yaml"}

IsPath(profile_name) == profile_name = "my.yaml"

WellnessPath == "profiles/wellness.yaml"

\* lines 48-51 of load_profile
ResolvePath(profile_name) ==
    IF IsPath(profile_name) THEN profile_name
    ELSE IF profile_name = "custom" THEN "profiles/custom.yaml"
    ELSE "profiles/ghost.yaml"

ProfilePaths == {"profiles/custom.yaml", "profiles/ghost.yaml", "my.yaml", WellnessPath}

\* the profile files of one installation
ProfileDisks ==
    { [p \in ProfilePaths |->
          IF p = "profiles/custom.yaml" THEN c
          ELSE IF p = WellnessPath THEN w
          ELSE IF p = "my.yaml" THEN m
          ELSE Absent] :
        c \in {Holds(CustomYaml), Holds(PartialYaml), Malformed},
        w \in {Holds(WellnessYaml), Absent},
        m \in {Holds(ListYaml), Holds(EmptyYaml)} }

load_profile(profile_name, yamlInstalled, disk) ==
    IF ~yamlInstalled THEN DefaultProfile
    ELSE LET requested == ResolvePath(profile_name)
             profile_path == IF disk[requested].state = "absent" THEN WellnessPath ELSE requested
         IN IF disk[profile_path].state = "ok" THEN disk[profile_path].value
            ELSE DefaultProfile

\* without PyYAML load_profile returns before it looks at its argument
UnreadBrand == "custom"

\* the files load_profile opens for this brand argument
FilesRead(profile_name, yamlInstalled, disk) ==
    IF ~yamlInstalled THEN {}
    ELSE IF disk[ResolvePath(profile_name)].state = "absent"
         THEN {ResolvePath(profile_name), WellnessPath}
         ELSE {ResolvePath(profile_name)}

\* a run never opens the other files: they hold this
UnreadDisk ==
    [p \in ProfilePaths |->
        IF p = "profiles/custom.yaml" THEN Holds(CustomYaml)
        ELSE IF p = WellnessPath THEN Holds(WellnessYaml)
        ELSE IF p = "my.yaml" THEN Holds(ListYaml)
        ELSE Absent]

Installations ==
    { i \in [brand : BrandArgs, yaml : BOOLEAN, disk : ProfileDisks] :
        /\ \A p \in ProfilePaths \ FilesRead(i.brand, i.yaml, i.disk) : i.disk[p] = UnreadDisk[p]
        /\ ~i.yaml => i.brand = UnreadBrand }

(***************************************************************************)
(* get_image_size (config.py).  Of a profile the function reads the image  *)
(* section: format, absent (<<>>) or one name, and sizes, a mapping from   *)
(* format names to what the file stores for them, or None ("sizes:" with   *)
(* nothing after it).                                                      *)
(***************************************************************************)
FormatNames == {"square", "wide", "story", "compact", "banner"}

FormatCells == {<<>>} \cup {<<f>> : f \in FormatNames}

\* values a profile can store for a format: a list of two numbers, or not
StoredSizes == {<<1200, 630>>, <<640, 480>>, <<0, 600>>, <<500>>}

SizeKeys == {"wide", "square", "banner"}

SizeMaps ==
    {[kind |-> "none", map |-> <<>>]}
        \cup { [kind |-> "dict", map |-> m] : m \in UNION {[D -> StoredSizes] : D \in SUBSET SizeKeys} }

ImageConfigs == [format : FormatCells, sizes : SizeMaps]

default_sizes ==
    [square |-> <<800, 800>>, wide |-> <<1200, 900>>, story |-> <<1080, 1920>>,
     compact |-> <<800, 600>>]

\* sizes.get(key, default)
Get(map, key, default) == IF key \in DOMAIN map THEN map[key] ELSE default

\* the built-in table is asked before the profile
get_image_size_BuiltInFirst(image_config) ==
    LET format_name == IF image_config.format = <<>> THEN "wide" ELSE image_config.format[1]
    IN IF image_config.sizes.kind = "none"
       THEN [raised |-> TRUE, value |-> <<>>]
       ELSE [raised |-> FALSE,
             value |-> Get(default_sizes, format_name,
                           Get(image_config.sizes.map, format_name, <<800, 600>>))]

\* lines 182-194; None has no get: AttributeError
get_image_size(image_config) ==
    LET format_name == IF image_config.format = <<>> THEN "wide" ELSE image_config.format[1]
    IN IF image_config.sizes.kind = "none"
       THEN [raised |-> TRUE, value |-> <<>>]
       ELSE [raised |-> FALSE,
             value |-> Get(image_config.sizes.map, format_name,
                           Get(default_sizes, format_name, <<800, 600>>))]

(***************************************************************************)
(* get_cta_text (config.py).  A text is the sequence of its glyphs.  Of a  *)
(* profile the function reads the cta section: texts, a mapping from       *)
(* stages to texts, and icon, <<>> when the key is absent or empty.  The   *)
(* glyphs rarr, larr and star are the right arrow, the left arrow and an   *)
(* icon that is no arrow.                                                  *)
(***************************************************************************)
Glyphs == {"G", "!", "?", "rarr", "larr", "star"}

RECURSIVE TextsOfLength(_)
TextsOfLength(n) ==
    IF n = 0 THEN {<<>>}
    ELSE {Append(t, g) : t \in TextsOfLength(n - 1), g \in Glyphs}

Texts == UNION {TextsOfLength(n) : n \in 0..MaxText}

Icons == {<<>>, <<"rarr">>, <<"star">>, <<"!">>, <<"G">>, <<"star", "G">>}

\* cta.texts: no entry at all, or one entry, for the stage asked or another
TextMaps == {<<>>} \cup UNION {[{s} -> Texts] : s \in {"interest", "solution"}}

CtaConfigs == [texts : TextMaps, icon : Icons]

\* the default text, "learn more" and a right arrow; the words are kept as
\* one element
DefaultCtaText == <<"learn more", " ", "rarr">>

\* sub in text
Contains(text, sub) ==
    \E i \in 0..(Len(text) - Len(sub)) : SubSeq(text, i + 1, i + Len(sub)) = sub

\* text.endswith(('!', '?'))
EndsWithMark(text) == Len(text) > 0 /\ text[Len(text)] \in {"!", "?"}

\* the icon is appended without looking for it in the text
get_cta_text_AlwaysAppend(cta, stage) ==
    LET text == Get(cta.texts, stage, DefaultCtaText)
    IN IF Contains(text, <<"rarr">>) \/ Contains(text, <<"larr">>) \/ EndsWithMark(text)
       THEN text
       ELSE IF cta.icon # <<>>
            THEN text \o <<" ">> \o cta.icon
            ELSE text

\* lines 213-227
get_cta_text(cta, stage) ==
    LET text == Get(cta.texts, stage, DefaultCtaText)
    IN IF Contains(text, <<"rarr">>) \/ Contains(text, <<"larr">>) \/ EndsWithMark(text)
       THEN text
       ELSE IF cta.icon # <<>> /\ ~Contains(text, cta.icon)
            THEN text \o <<" ">> \o cta.icon
            ELSE text

(***************************************************************************)
(* render_html and _resolve_asset_paths (utils.py): what becomes of the    *)
(* brand section.                                                          *)
(***************************************************************************)
\* the files under assets/ of the installation
AssetFiles == {<<"assets", "logo.png">>}

\* lines 62-68: a string that starts with assets/ and names a file becomes
\* its file:// address
resolve_asset_paths(value) ==
    IF Len(value) > 0 /\ value[1] = "assets" /\ value \in AssetFiles
    THEN <<"file://">> \o value
    ELSE value

\* lines 88-89 of render_html: without a profile the default is used
RenderProfile(p) == IF p.kind = "none" THEN DefaultProfile ELSE p

\* the address is stored in the dict that was passed
ProfileAfterRender_InPlace(p) ==
    [p EXCEPT !.brand_logo = resolve_asset_paths(@)]

\* lines 58 and 72: _resolve_asset_paths fills and returns a new dict
\* (result), render_html binds it to brand_data (line 114) and assigns to
\* no key of profile
ProfileAfterRender(p) == p

(***************************************************************************)
(* html_to_png (utils.py): the artifact name.  A name is the sequence of   *)
(* its parts, which the code joins with "_" and ends with ".png".          *)
(***************************************************************************)
\* the stage alone as label
Label_StageOnly(stage, variant) == <<stage>>

\* f"{stage}_{variant}", the label send_funnel passes as html_to_png's stage
Label(stage, variant) == <<stage, variant>>

\* png_filename = f"{stage}_{user_id}.png", stage being the label
png_filename(label, user_id) == label \o <<user_id>>

\* the name _pillow_fallback builds for itself at lines 336-337
pillow_png_filename(label, user_id) == label \o <<user_id>>

(***************************************************************************)
(* State.                                                                  *)
(***************************************************************************)
VARIABLES
    args,            \* parsed command line: send, variant, brand, list_profiles
    token,           \* BOT_TOKEN is set in the environment
    yaml,            \* PyYAML can be imported
    disk,            \* profile files
    csv,             \* users.csv
    pc,              \* position in main / send_funnel
    profile,         \* main: profile
    users_df,        \* main: users_df
    bot,             \* "none", "open", "closed"
    exit_code,       \* -1 while running
    row,             \* send_funnel: index of the current row
    st,              \* send_funnel: index of the current stage
    variant,         \* send_funnel: variant
    png_path,        \* send_funnel: png_path, <<>> before html_to_png returned
    total_messages,  \* send_funnel: total_messages
    processed,       \* send_funnel: processed
    variant_stats,   \* send_funnel: variant_stats
    files,           \* names of the files in output/
    log,             \* what happened to each (row, stage) pair, in order
    draws,           \* calls of get_random_variant
    summaries,       \* final summaries printed
    faults,          \* failures so far: render, rasterization, transmission
    image,           \* get_image_size: the image section of its argument
    size,            \* get_image_size: what the call returned
    cta,             \* get_cta_text: the cta section of its argument
    cta_text,        \* get_cta_text: what the call returned
    cta_again        \* get_cta_text: what it returned for its own result

inputs == <<args, token, yaml, disk, csv>>
call == <<image, size, cta, cta_text, cta_again>>
locals == <<row, st, variant, png_path, total_messages, processed, variant_stats>>
vars == <<args, token, yaml, disk, csv, pc, profile, users_df, bot, exit_code,
          row, st, variant, png_path, total_messages, processed, variant_stats,
          files, log, draws, summaries, faults, image, size, cta, cta_text, cta_again>>

\* sending whatever the flags say
send_real_Always == TRUE

\* lines 179-184 of main
send_real == args.send

NoProfile == [kind |-> "unset", brand_name |-> "", brand_logo |-> <<>>, sections |-> {}, brand |-> {}, colors |-> {}, content |-> {}]

ZeroStats == [v \in VariantSet |-> 0]

\* the installation and the table of the reference run
ReferenceInstallation == [brand |-> "custom", yaml |-> TRUE, disk |-> UnreadDisk]

ReferenceTable == Table(AllColumns, ReferenceRows)

NoImage == [format |-> <<>>, sizes |-> [kind |-> "dict", map |-> <<>>]]

NoSize == [raised |-> FALSE, value |-> <<>>]

NoCta == [texts |-> <<>>, icon |-> <<>>]

\* the tables of random mode: the reference rows, repeated up to MaxUsers
RandomModeTables ==
    { Table(AllColumns, [k \in 1..n |-> ReferenceRows[((k - 1) % Len(ReferenceRows)) + 1]]) :
        n \in 1..MaxUsers }

\* The profile files and the table are varied one at a time around the
\* reference run: send_funnel reads of the profile only whether it is a
\* mapping (line 41), and load_profile reads nothing of the table.  The
\* content of the table is varied in fixed mode: load_users does not know
\* the mode, and in random mode the loop does not read the stored variant
\* (lines 65-66).  The profile files are varied in fixed mode: neither
\* load_profile nor line 41 knows the variant mode.
Init ==
    /\ \E i \in Installations, s \in BOOLEAN, m \in {"fixed", "random"}, l \in BOOLEAN :
          /\ args = [send |-> s, variant |-> m, brand |-> i.brand, list_profiles |-> l]
          /\ i # ReferenceInstallation => m = "fixed"
          /\ yaml = i.yaml
          /\ disk = i.disk
          /\ csv \in IF i # ReferenceInstallation THEN {ReferenceTable}
                     ELSE IF m = "random" THEN RandomModeTables
                     ELSE Tables
    /\ token \in BOOLEAN
    /\ pc = "start"
    /\ profile = NoProfile
    /\ users_df = <<>>
    /\ bot = "none"
    /\ exit_code = -1
    /\ row = 0
    /\ st = 0
    /\ variant = ""
    /\ png_path = <<>>
    /\ total_messages = 0
    /\ processed = 0
    /\ variant_stats = ZeroStats
    /\ files = {}
    /\ log = <<>>
    /\ draws = 0
    /\ summaries = 0
    /\ faults = 0
    /\ image = NoImage
    /\ size = NoSize
    /\ cta = NoCta
    /\ cta_text = <<>>
    /\ cta_again = <<>>

(***************************************************************************)
(* main (bot_funnel.py).                                                   *)
(***************************************************************************)
\* sys.exit(code) inside the try block, or an exception caught by main's
\* handlers, which call sys.exit(1): the finally clause still runs
ExitThroughFinally(code) ==
    /\ exit_code' = code
    /\ pc' = "finally"

\* lines 158-186: --list-profiles prints the list and returns
ParseArgs ==
    /\ pc = "start"
    /\ IF args.list_profiles
       THEN pc' = "exit" /\ exit_code' = 0
       ELSE pc' = "load_profile" /\ UNCHANGED exit_code
    /\ UNCHANGED <<inputs, call, profile, users_df, bot, locals, files, log, draws, summaries, faults>>

\* line 189
LoadProfile ==
    /\ pc = "load_profile"
    /\ profile' = load_profile(args.brand, yaml, disk)
    /\ pc' = "check_token"
    /\ UNCHANGED <<inputs, call, users_df, bot, exit_code, locals, files, log, draws, summaries, faults>>

\* the token is not looked at
CheckToken_NoCheck ==
    /\ pc = "check_token"
    /\ pc' = "load_users"
    /\ UNCHANGED <<inputs, call, profile, users_df, bot, exit_code, locals, files, log, draws,
                   summaries, faults>>

\* lines 192-199: sys.exit(1) before the try block, else output/ is created
CheckToken ==
    /\ pc = "check_token"
    /\ IF ~token
       THEN pc' = "exit" /\ exit_code' = 1
       ELSE pc' = "load_users" /\ UNCHANGED exit_code
    /\ UNCHANGED <<inputs, call, profile, users_df, bot, locals, files, log, draws, summaries, faults>>

\* lines 203-207 with the handlers of lines 215-220
LoadUsers ==
    /\ pc = "load_users"
    /\ LET r == load_users(csv)
       IN IF ~r.ok
          THEN ExitThroughFinally(1) /\ UNCHANGED users_df
          ELSE /\ users_df' = r.df
               /\ IF Len(r.df) = 0                       \* users_df.empty
                  THEN ExitThroughFinally(1)
                  ELSE pc' = "create_bot" /\ UNCHANGED exit_code
    /\ UNCHANGED <<inputs, call, profile, bot, locals, files, log, draws, summaries, faults>>

\* line 210
CreateBot ==
    /\ pc = "create_bot"
    /\ bot' = "open"
    /\ pc' = "funnel"
    /\ UNCHANGED <<inputs, call, profile, users_df, exit_code, locals, files, log, draws, summaries, faults>>

\* the session is closed at the end of the try block, not in a finally
\* clause: an error that leaves the loop passes it by
Finally_CloseOnSuccess ==
    /\ pc = "finally"
    /\ bot' = IF bot = "open" /\ exit_code = -1 THEN "closed" ELSE bot
    /\ pc' = "exit"
    /\ exit_code' = IF exit_code = -1 THEN 0 ELSE exit_code
    /\ UNCHANGED <<inputs, call, profile, users_df, locals, files, log, draws, summaries, faults>>

\* lines 221-224: close the session when the bot exists
Finally ==
    /\ pc = "finally"
    /\ bot' = IF bot = "none" THEN "none" ELSE "closed"
    /\ pc' = "exit"
    /\ exit_code' = IF exit_code = -1 THEN 0 ELSE exit_code
    /\ UNCHANGED <<inputs, call, profile, users_df, locals, files, log, draws, summaries, faults>>

(***************************************************************************)
(* send_funnel (bot_funnel.py).                                            *)
(***************************************************************************)
\* log entry of the pair that is being processed
NewEntry(v) ==
    [row |-> row, stage |-> STAGES[st], variant |-> v, chat_id |-> users_df[row].telegram_id,
     brand_logo |-> RenderProfile(profile).brand_logo, brand_data_logo |-> <<>>,
     render |-> "none", primary |-> "none", primary_calls |-> 0, fallback |-> "none",
     raster |-> "none", file |-> <<>>, send |-> "none", sends |-> 0,
     delay |-> 0, counted |-> FALSE, logged |-> FALSE]

Last == log[Len(log)]

\* a loop that leaves out the last stage
Advance_SkipLast ==
    IF st < Len(STAGES) - 1
    THEN st' = st + 1 /\ pc' = "render" /\ row' = row
    ELSE st' = 0 /\ pc' = "user" /\ row' = row + 1

\* the end of one iteration of "for stage in STAGES", and of the row after the last stage
Advance ==
    IF st < Len(STAGES)
    THEN st' = st + 1 /\ pc' = "render" /\ row' = row
    ELSE st' = 0 /\ pc' = "user" /\ row' = row + 1

\* the per-variant count is left out
Count_ProcessedOnly(l) ==
    /\ variant_stats' = variant_stats
    /\ processed' = processed + 1
    /\ log' = [l EXCEPT ![Len(l)].counted = TRUE]

\* lines 111-113; l is the log with the entry of the current pair
Count(l) ==
    /\ variant_stats' = [variant_stats EXCEPT ![variant] = @ + 1]
    /\ processed' = processed + 1
    /\ log' = [l EXCEPT ![Len(l)].counted = TRUE]

\* the counters moved out of the try block
OuterExcept_Counts(l) ==
    /\ Count([l EXCEPT ![Len(l)].logged = TRUE])
    /\ Advance

\* the handler inside the try block of the transmission: in send mode the
\* pair goes on to send_photo
OuterExcept_SendAnyway(l) ==
    /\ log' = [l EXCEPT ![Len(l)].logged = TRUE]
    /\ IF send_real
       THEN pc' = "send" /\ UNCHANGED <<row, st>>
       ELSE Advance
    /\ UNCHANGED <<processed, variant_stats>>

\* lines 115-117: print the error and continue with the next stage
OuterExcept(l) ==
    /\ log' = [l EXCEPT ![Len(l)].logged = TRUE]
    /\ Advance
    /\ UNCHANGED <<processed, variant_stats>>

\* lines 41-54; profile.get raises AttributeError when the document is no
\* mapping, and main's handler exits
FunnelStart ==
    /\ pc = "funnel"
    /\ IF profile.kind = "list"
       THEN ExitThroughFinally(1) /\ UNCHANGED locals
       ELSE /\ total_messages' = Len(users_df) * Len(STAGES)
            /\ processed' = 0
            /\ variant_stats' = ZeroStats
            /\ row' = 1
            /\ pc' = "user"
            /\ UNCHANGED <<st, variant, png_path, exit_code>>
    /\ UNCHANGED <<inputs, call, profile, users_df, bot, files, log, draws, summaries, faults>>

\* line 68: row.get('variant', 'a'); load_users always leaves the column
RowVariant_Default(r) == "a"

RowVariant(r) == users_df[r].variant

\* lines 56-70: the next row of users_df and its variant
NextUser ==
    /\ pc = "user"
    /\ IF row > Len(users_df)
       THEN pc' = "summary" /\ UNCHANGED <<st, variant, draws>>
       ELSE /\ IF args.variant = "random"
               THEN variant' \in VariantSet /\ draws' = draws + 1      \* get_random_variant
               ELSE variant' = RowVariant(row) /\ UNCHANGED draws
            /\ st' = 1
            /\ pc' = "render"
    /\ UNCHANGED <<inputs, call, profile, users_df, bot, exit_code, row, png_path, total_messages,
                   processed, variant_stats, files, log, summaries, faults>>

\* line 75: render_html returns the document or raises (template missing,
\* template engine error), both wrapped at utils.py lines 150-151
RenderCall(v, d) ==
    /\ pc = "render"
    /\ variant' = v
    /\ draws' = d
    /\ profile' = ProfileAfterRender(profile)
    /\ \/ /\ log' = Append(log, [NewEntry(v) EXCEPT
                                  !.render = "ok",
                                  !.brand_data_logo = resolve_asset_paths(RenderProfile(profile).brand_logo)])
          /\ pc' = "rasterize"
          /\ UNCHANGED <<row, st, processed, variant_stats, faults>>
       \/ /\ faults < MaxFaults
          /\ faults' = faults + 1
          /\ OuterExcept(Append(log, [NewEntry(v) EXCEPT !.render = "failed"]))
    /\ UNCHANGED <<inputs, call, users_df, bot, exit_code, png_path, total_messages,
                   files, summaries>>

\* a variant chosen again for every stage
Render_Redraw ==
    IF args.variant = "random"
    THEN \E v \in VariantSet : RenderCall(v, draws + 1)
    ELSE RenderCall(variant, draws)

\* the variant is the one chosen for the row at lines 65-68
Render == RenderCall(variant, draws)

\* what the try block of html_to_png (lines 188-218) can end in: the file
\* moved to output/, html2image not installed, an exception of the renderer,
\* or no file in the temporary directory
PrimaryOutcomes == {"ok", "ImportError", "raised", "no_file"}

\* only the missing library is handled
TakesFallback_ImportOnly(outcome) == outcome = "ImportError"

\* lines 220-225: except ImportError and except Exception both call
\* _pillow_fallback
TakesFallback(outcome) == outcome # "ok"

\* lines 78-85 and html_to_png: the browser renderer writes the file, or it
\* fails and _pillow_fallback writes the file, or that raises too (wrapped
\* at lines 227-228); then lines 87 and 108-113
Rasterize ==
    /\ pc = "rasterize"
    /\ \E outcome \in PrimaryOutcomes, drawn \in BOOLEAN :
          /\ outcome = "ok" => drawn
          /\ IF outcome = "ok"
             THEN UNCHANGED faults
             ELSE faults < MaxFaults /\ faults' = faults + 1
          /\ LET label == Label(STAGES[st], variant)
                 user_id == users_df[row].telegram_id
                 fell == outcome # "ok" /\ TakesFallback(outcome)
                 name == IF outcome = "ok" THEN png_filename(label, user_id)
                         ELSE pillow_png_filename(label, user_id)
                 tried == [log EXCEPT ![Len(log)].primary = IF outcome = "ok" THEN "ok" ELSE "failed",
                                      ![Len(log)].primary_calls = @ + 1,
                                      ![Len(log)].fallback = IF ~fell THEN "none"
                                                             ELSE IF drawn THEN "ok" ELSE "failed"]
             IN IF outcome = "ok" \/ (fell /\ drawn)
                THEN /\ files' = files \cup {name}
                     /\ png_path' = name
                     /\ LET l == [tried EXCEPT ![Len(log)].raster = "ok", ![Len(log)].file = name]
                        IN IF send_real
                           THEN /\ pc' = "send"
                                /\ log' = l
                                /\ UNCHANGED <<row, st, processed, variant_stats>>
                           ELSE Count(l) /\ Advance
                ELSE /\ OuterExcept([tried EXCEPT ![Len(log)].raster = "failed"])
                     /\ UNCHANGED <<files, png_path>>
    /\ UNCHANGED <<inputs, call, profile, users_df, bot, exit_code, variant, total_messages,
                   draws, summaries>>

\* exceptions bot.send_photo raises, one per handler of lines 99-104
SendErrors == {"TelegramBadRequest", "TelegramForbiddenError", "Exception"}

\* no handler: the exception leaves send_funnel and main exits
SendHandlers_Propagate(outcome) ==
    IF outcome = "ok"
    THEN pc' = "sleep" /\ UNCHANGED exit_code
    ELSE ExitThroughFinally(1)

\* a failed transmission is attempted again
SendHandlers_Retry(outcome) ==
    /\ pc' = IF outcome = "ok" THEN "sleep" ELSE "send"
    /\ UNCHANGED exit_code

\* lines 91-104: every handler prints and falls through to the delay
SendHandlers(outcome) ==
    /\ pc' = "sleep"
    /\ UNCHANGED exit_code

\* lines 89-104: get_keyboard, then await bot.send_photo
Send ==
    /\ pc = "send"
    /\ \E outcome \in {"ok"} \cup SendErrors :
          /\ IF outcome = "ok"
             THEN UNCHANGED faults
             ELSE faults < MaxFaults /\ faults' = faults + 1
          /\ log' = [log EXCEPT ![Len(log)].send = IF outcome = "ok" THEN "ok" ELSE "failed",
                                ![Len(log)].sends = @ + 1,
                                ![Len(log)].logged = (outcome # "ok")]
          /\ SendHandlers(outcome)
    /\ UNCHANGED <<inputs, call, profile, users_df, bot, locals, files, draws, summaries>>

\* the delay inside the try block, after send_photo
Sleep_OnlyAfterSuccess ==
    /\ pc = "sleep"
    /\ Count([log EXCEPT ![Len(log)].delay = IF Last.send = "ok" THEN SEND_DELAY ELSE 0])
    /\ Advance
    /\ UNCHANGED <<inputs, call, profile, users_df, bot, exit_code, variant, png_path, total_messages,
                   files, draws, summaries, faults>>

\* line 107, then lines 111-113
Sleep ==
    /\ pc = "sleep"
    /\ Count([log EXCEPT ![Len(log)].delay = SEND_DELAY])
    /\ Advance
    /\ UNCHANGED <<inputs, call, profile, users_df, bot, exit_code, variant, png_path, total_messages,
                   files, draws, summaries, faults>>

\* lines 119-129, and the return to main
Summary ==
    /\ pc = "summary"
    /\ summaries' = summaries + 1
    /\ pc' = "finally"
    /\ UNCHANGED <<inputs, call, profile, users_df, bot, exit_code, locals, files, log, draws, faults>>

Next ==
    \/ ParseArgs
    \/ LoadProfile
    \/ CheckToken
    \/ LoadUsers
    \/ CreateBot
    \/ FunnelStart
    \/ NextUser
    \/ Render
    \/ Rasterize
    \/ Send
    \/ Sleep
    \/ Summary
    \/ Finally

Spec == Init /\ [][Next]_vars

\* main runs one coroutine on the event loop: while a step is possible it is
\* taken, every call of the loop returning or raising
FairSpec == Spec /\ WF_vars(Next)

(***************************************************************************)
(* get_image_size called on its own, for every image section.              *)
(***************************************************************************)
\* no run of main: its variables stay as they are before the first step
NoRun ==
    /\ args = [send |-> FALSE, variant |-> "fixed", brand |-> UnreadBrand, list_profiles |-> FALSE]
    /\ token = TRUE
    /\ yaml = TRUE
    /\ disk = UnreadDisk
    /\ csv = ReferenceTable
    /\ profile = NoProfile
    /\ users_df = <<>>
    /\ bot = "none"
    /\ exit_code = -1
    /\ row = 0
    /\ st = 0
    /\ variant = ""
    /\ png_path = <<>>
    /\ total_messages = 0
    /\ processed = 0
    /\ variant_stats = ZeroStats
    /\ files = {}
    /\ log = <<>>
    /\ draws = 0
    /\ summaries = 0
    /\ faults = 0

InitImageSize ==
    /\ image \in ImageConfigs
    /\ size = NoSize
    /\ cta = NoCta
    /\ cta_text = <<>>
    /\ cta_again = <<>>
    /\ pc = "get_image_size"
    /\ NoRun

GetImageSize ==
    /\ pc = "get_image_size"
    /\ size' = get_image_size(image)
    /\ pc' = "returned"
    /\ UNCHANGED <<inputs, image, cta, cta_text, cta_again, profile, users_df, bot, exit_code,
                   locals, files, log, draws, summaries, faults>>

NextImageSize == GetImageSize

SpecImageSize == InitImageSize /\ [][NextImageSize]_vars

(***************************************************************************)
(* get_cta_text called on its own for the stage interest, and then once    *)
(* more on a profile whose text for the stage is what the call returned.   *)
(***************************************************************************)
InitCtaText ==
    /\ cta \in CtaConfigs
    /\ cta_text = <<>>
    /\ cta_again = <<>>
    /\ image = NoImage
    /\ size = NoSize
    /\ pc = "get_cta_text"
    /\ NoRun

GetCtaText ==
    /\ pc = "get_cta_text"
    /\ cta_text' = get_cta_text(cta, "interest")
    /\ pc' = "returned"
    /\ UNCHANGED <<inputs, image, size, cta, cta_again, profile, users_df, bot, exit_code,
                   locals, files, log, draws, summaries, faults>>

GetCtaTextAgain ==
    /\ pc = "returned"
    /\ cta_again' = get_cta_text([cta EXCEPT !.texts = [s \in {"interest"} |-> cta_text]], "interest")
    /\ pc' = "returned_again"
    /\ UNCHANGED <<inputs, image, size, cta, cta_text, profile, users_df, bot, exit_code,
                   locals, files, log, draws, summaries, faults>>

NextCtaText == GetCtaText \/ GetCtaTextAgain

SpecCtaText == InitCtaText /\ [][NextCtaText]_vars

(***************************************************************************)
(* Properties.                                                             *)
(***************************************************************************)
\* the k-th (row, stage) pair of the iteration order
PairRow(k) == ((k - 1) \div Len(STAGES)) + 1

PairStage(k) == STAGES[((k - 1) % Len(STAGES)) + 1]

Entries == 1..Len(log)

FunnelFinished == summaries = 1

SendFailed(i) == log[i].send = "failed"

GenerationFailed(i) == log[i].render = "failed" \/ log[i].raster = "failed"

\* the pair was taken up: rendered, then rasterized if the document was
\* there, then in send mode handed to send_photo if the file was there
Attempted(k) ==
    /\ k <= Len(log)
    /\ log[k].row = PairRow(k)
    /\ log[k].stage = PairStage(k)
    /\ log[k].render # "none"
    /\ log[k].render = "ok" => log[k].raster # "none"
    /\ (args.send /\ log[k].raster = "ok") => log[k].send # "none"

\* C1: in send mode a failed transmission (bad request, recipient blocked
\* the bot, any other exception of the send call) never aborts the run:
\* the program does not exit with an error, and when the loop has finished
\* every later pair of the iteration order was rendered, rasterized and
\* handed to the send call.
C1_SendFailureDoesNotAbort ==
    \A i \in Entries :
        (args.send /\ SendFailed(i)) =>
            /\ exit_code # 1
            /\ pc \notin {"start", "load_profile", "check_token", "load_users", "create_bot", "funnel"}
            /\ (pc \in {"summary", "finally", "exit"}) =>
                   /\ FunnelFinished \/ pc = "summary"
                   /\ \A k \in (i + 1)..(Len(STAGES) * Len(users_df)) : Attempted(k)

\* a run whose transmission failed before the last pair, after the loop
C1_Witness ==
    /\ pc = "exit"
    /\ args.send
    /\ FunnelFinished
    /\ \E i \in Entries : SendFailed(i) /\ i < Len(log) /\ log[Len(log)].send = "ok"

\* C2 (as claimed): in send mode the processed count at the end of the run
\* is the total expected count minus the number of pairs that failed, the
\* pairs whose transmission raised included.
C2_FailedSendNotCounted ==
    (args.send /\ FunnelFinished) =>
        processed = total_messages
                      - Cardinality({i \in Entries : GenerationFailed(i) \/ SendFailed(i)})

\* C3 (as claimed): in random mode a variant is drawn for every
\* (recipient, stage) pair.
C3_DrawnPerPair ==
    (args.variant = "random" /\ FunnelFinished) => draws = Len(log)

\* C3 (amended): in random mode the variant is drawn once per row of the
\* table, before its first stage, and all stages of the row use that draw:
\* a row never gets different variants on different stages.
C3_DrawnOncePerRow ==
    args.variant = "random" =>
        /\ \A i, j \in Entries : log[i].row = log[j].row => log[i].variant = log[j].variant
        /\ pc \in {"render", "rasterize", "send", "sleep"} => draws = row
        /\ FunnelFinished => draws = Len(users_df)

\* random mode, two rows that drew different variants, three stages each
C3_Witness ==
    /\ args.variant = "random"
    /\ FunnelFinished
    /\ Len(log) = 6
    /\ log[1].variant # log[4].variant
    /\ log[1].variant = log[3].variant

\* C4 (as claimed): test mode writes {stage}_{variant}_{recipientId}.png,
\* send mode writes {stage}_{recipientId}.png.
C4_NameDependsOnMode ==
    \A i \in Entries :
        log[i].raster = "ok" =>
            log[i].file = IF args.send
                          THEN <<log[i].stage, log[i].chat_id>>
                          ELSE <<log[i].stage, log[i].variant, log[i].chat_id>>

\* C4 (amended): in test mode and in send mode alike every artifact is
\* written as {stage}_{variant}_{recipientId}.png.
C4_NameHasVariantInBothModes ==
    /\ \A i \in Entries :
          log[i].raster = "ok" =>
              /\ log[i].file = <<log[i].stage, log[i].variant, log[i].chat_id>>
              /\ log[i].file \in files
    /\ \A f \in files : \E i \in Entries : log[i].raster = "ok" /\ log[i].file = f

\* send mode, an artifact written and transmitted
C4_Witness ==
    /\ args.send
    /\ \E i \in Entries : log[i].send = "ok" /\ log[i].file \in files

\* the artifacts a row yields in fixed mode: one per stage, named with the
\* stored variant and the identifier of the row
ExpectedNames(r) ==
    { <<STAGES[k], users_df[r].variant, users_df[r].telegram_id>> : k \in 1..Len(STAGES) }

\* C5: test mode, fixed variants, every render and rasterize succeeded: at
\* the end each recipient has exactly three artifacts, one per stage, each
\* named with its stored variant and identifier, and the processed count
\* equals the total expected count, three per recipient.
C5_TestRunProducesThreePerRecipient ==
    (~args.send /\ args.variant = "fixed" /\ FunnelFinished
        /\ \A i \in Entries : ~GenerationFailed(i)) =>
        /\ \A r \in 1..Len(users_df) :
              /\ Cardinality({i \in Entries : log[i].row = r}) = 3
              /\ {log[i].file : i \in {j \in Entries : log[j].row = r}} = ExpectedNames(r)
              /\ \A k \in 1..3 : \E i \in Entries :
                    /\ log[i].row = r
                    /\ log[i].stage = STAGES[k]
                    /\ log[i].file = <<STAGES[k], users_df[r].variant, users_df[r].telegram_id>>
              /\ Cardinality({f \in files : f \in ExpectedNames(r)}) = 3
        /\ files = UNION {ExpectedNames(r) : r \in 1..Len(users_df)}
        /\ processed = total_messages
        /\ total_messages = 3 * Len(users_df)

\* the run of scenario A: Anna, 55, b alone in the table
C5_Witness ==
    /\ ~args.send /\ args.variant = "fixed" /\ FunnelFinished
    /\ pc = "exit" /\ exit_code = 0
    /\ Len(users_df) = 1
    /\ files = {<<"interest", "b", 55>>, <<"solution", "b", 55>>, <<"deadline", "b", 55>>}
    /\ processed = 3

\* C6: in fixed mode every stage of a recipient is rendered with the
\* variant stored in the recipient's record; it never changes between the
\* stages of one recipient.
C6_FixedVariantIsStoredVariant ==
    args.variant = "fixed" =>
        /\ \A i \in Entries : log[i].variant = users_df[log[i].row].variant
        /\ pc \in {"render", "rasterize", "send", "sleep"} => variant = users_df[row].variant
        /\ draws = 0

\* fixed mode, all three stages of a row stored with variant b
C6_Witness ==
    /\ args.variant = "fixed"
    /\ \E i \in Entries :
          /\ i + 2 <= Len(log)
          /\ log[i].stage = "interest" /\ log[i + 2].stage = "deadline"
          /\ log[i].row = log[i + 2].row
          /\ users_df[log[i].row].variant = "b"
          /\ log[i + 2].raster = "ok"

\* C7: when sending is not enabled no transmission call and no delay ever
\* happens, for any table, variant mode and profile; only artifacts are
\* generated.
C7_TestModeNeverSends ==
    ~args.send =>
        /\ pc \notin {"send", "sleep"}
        /\ \A i \in Entries : log[i].send = "none" /\ log[i].delay = 0

\* a finished test run that generated artifacts
C7_Witness ==
    /\ ~args.send
    /\ FunnelFinished
    /\ pc = "exit"
    /\ Len(log) = 6
    /\ files # {}

\* C8: a failed template lookup, render or rasterize is logged and skips
\* only its pair: no transmission, no delay, no counter increment; the loop
\* goes on with the next stage or recipient, and the processed count at the
\* end leaves out exactly those pairs.
C8_GenerationFailureSkipsPair ==
    /\ \A i \in Entries :
          GenerationFailed(i) =>
              /\ log[i].logged
              /\ log[i].send = "none" /\ log[i].delay = 0 /\ ~log[i].counted
              /\ log[i].render = "failed" => log[i].raster = "none"
              /\ exit_code # 1
              /\ (pc \in {"summary", "finally", "exit"}) =>
                     \A k \in (i + 1)..(Len(STAGES) * Len(users_df)) : Attempted(k)
    /\ \A i \in Entries : log[i].counted => ~GenerationFailed(i)
    /\ FunnelFinished =>
          /\ Len(log) = total_messages
          /\ processed = total_messages - Cardinality({i \in Entries : GenerationFailed(i)})

\* a finished run with one failed pair followed by pairs of the same and of
\* the next recipient
C8_Witness ==
    /\ FunnelFinished
    /\ Len(log) = 6
    /\ \E i \in 1..2 : GenerationFailed(i) /\ log[i + 1].counted /\ log[6].counted
    /\ processed = 5

\* the table lacks a required column
ColumnsMissing == csv.file = "ok" /\ {"name", "role", "company", "telegram_id"} \ csv.columns # {}

\* the table is empty: a file of zero bytes, or a header without rows
TableEmpty == csv.file = "empty" \/ (csv.file = "ok" /\ Len(csv.rows) = 0)

NotAnInteger(cell) ==
    \/ cell = <<>>
    \/ \E k \in 1..Len(cell) : cell[k] \notin {"0", "1", "2", "3", "4", "5", "6", "7", "8", "9"}

\* C10: one identifier that does not convert to an integer fails the whole
\* load with an error and no record is returned, however many other rows
\* are valid.
C10_BadIdentifierFailsWholeLoad ==
    (csv.file = "ok" /\ {"name", "role", "company", "telegram_id"} \subseteq csv.columns
        /\ \E i \in 1..Len(csv.rows) : NotAnInteger(csv.rows[i].telegram_id)) =>
        /\ ~load_users(csv).ok
        /\ load_users(csv).df = <<>>
        /\ users_df = <<>> /\ log = <<>> /\ files = {}
        /\ (pc \in {"finally", "exit"} /\ token /\ ~args.list_profiles) => exit_code = 1

\* a table with a valid first row and an invalid second one, after the load
C10_Witness ==
    /\ pc = "exit" /\ exit_code = 1 /\ token /\ ~args.list_profiles
    /\ csv.file = "ok" /\ AllColumns \subseteq csv.columns
    /\ Len(csv.rows) = 2
    /\ ~NotAnInteger(csv.rows[1].telegram_id)
    /\ NotAnInteger(csv.rows[2].telegram_id)
    /\ users_df = <<>>

\* C11: after a successful load every record's variant is one of a, b, c: a
\* table without the variant column gives every record 'a', a cell outside
\* the set is replaced by 'a' and a cell inside it is kept, so no pair of the
\* delivery loop is ever rendered with a raw invalid value.
C11_LoadedVariantIsKnown ==
    /\ \A r \in 1..Len(users_df) :
          /\ users_df[r].variant \in {"a", "b", "c"}
          /\ "variant" \notin csv.columns => users_df[r].variant = "a"
          /\ "variant" \in csv.columns =>
                users_df[r].variant = IF csv.rows[r].variant \in {"a", "b", "c"}
                                      THEN csv.rows[r].variant ELSE "a"
    /\ \A i \in Entries : log[i].variant \in {"a", "b", "c"}
    /\ pc \in {"render", "rasterize", "send", "sleep"} => variant \in {"a", "b", "c"}

\* fixed mode, a row whose cell held a value outside the set was rendered
C11_Witness ==
    /\ args.variant = "fixed"
    /\ "variant" \in csv.columns
    /\ \E i \in Entries :
          /\ csv.rows[log[i].row].variant \notin {"a", "b", "c"}
          /\ users_df[log[i].row].variant = "a"
          /\ log[i].variant = "a"
          /\ log[i].raster = "ok"

\* C12: without the bot token a run, in test mode and in send mode alike,
\* stops at startup with exit code 1: the recipient table is never loaded,
\* no bot is created, no pair is taken up, no artifact is written and
\* nothing is transmitted.
C12_MissingTokenAbortsAtStartup ==
    (~token /\ ~args.list_profiles) =>
        /\ pc \in {"start", "load_profile", "check_token", "exit"}
        /\ users_df = <<>> /\ bot = "none"
        /\ files = {} /\ log = <<>> /\ summaries = 0
        /\ pc = "exit" => exit_code = 1

\* send mode, a table that would load, no token: the run has exited
C12_Witness ==
    /\ ~token /\ ~args.list_profiles
    /\ args.send
    /\ csv.file = "ok" /\ Len(csv.rows) = 2 /\ csv.columns = AllColumns
    /\ pc = "exit" /\ exit_code = 1

\* the run has a token and a table that loads with at least one row
TableUsable == load_users(csv).ok /\ Len(load_users(csv).df) > 0

\* C13 (as claimed): profile loading never fails the run: when the resolved
\* file does not exist the named profile wellness is used, when reading or
\* parsing fails the hard-coded default is used, and whatever the profile
\* file holds the run goes on to the delivery loop with a usable profile
\* and does not exit with an error because of the profile.
C13_ProfileLoadNeverFailsRun ==
    (token /\ ~args.list_profiles /\ TableUsable /\ pc \notin {"start", "load_profile"}) =>
        /\ (yaml /\ disk[ResolvePath(args.brand)].state = "malformed") => profile = DefaultProfile
        /\ (yaml /\ disk[ResolvePath(args.brand)].state = "absent"
                 /\ disk[WellnessPath].state = "ok") => profile = disk[WellnessPath].value
        /\ profile.kind \in {"dict", "none"}
        /\ pc = "exit" => (exit_code = 0 /\ summaries = 1 /\ Len(log) > 0)

\* C14 (as claimed): every profile that the load returned and the delivery
\* loop used passes validate_profile: all required sections, the three
\* required colours and a content entry for each of the three stages.
C14_LoadedProfileIsValid ==
    (profile # NoProfile /\ Len(log) > 0) => validate_profile(profile)

\* the format key get_image_size looks up: image.format, wide without it
FormatKey == IF image.format = <<>> THEN "wide" ELSE image.format[1]

\* the built-in pair for a format name
BuiltIn(f) ==
    IF f = "square" THEN <<800, 800>>
    ELSE IF f = "wide" THEN <<1200, 900>>
    ELSE IF f = "story" THEN <<1080, 1920>>
    ELSE <<800, 600>>

\* what the claim says the call returns
StoredOrBuiltIn ==
    IF FormatKey \in DOMAIN image.sizes.map THEN image.sizes.map[FormatKey] ELSE BuiltIn(FormatKey)

PositivePair(v) == Len(v) = 2 /\ v[1] > 0 /\ v[2] > 0

Complete(k) ==
    /\ log[k].render # "none"
    /\ log[k].render = "ok" => log[k].raster # "none"
    /\ (args.send /\ log[k].raster = "ok") => (log[k].send # "none" /\ log[k].delay = 1)
    /\ IF GenerationFailed(k) THEN log[k].logged ELSE log[k].counted

\* C17: pairs are processed one at a time in a fixed order: rows in table
\* order and, for each row, interest, solution, deadline; when a pair is
\* taken up every earlier pair has completed all its steps (render,
\* rasterize, transmission, delay), and the steps in progress belong to the
\* last pair taken up.
C17_OnePairAtATimeInOrder ==
    /\ Len(log) <= 3 * Len(users_df)
    /\ \A k \in Entries :
          /\ log[k].row = ((k - 1) \div 3) + 1
          /\ log[k].stage = <<"interest", "solution", "deadline">>[((k - 1) % 3) + 1]
          /\ k < Len(log) => Complete(k)
    /\ pc \in {"rasterize", "send", "sleep"} =>
          (Len(log) > 0 /\ ~Complete(Len(log)) /\ Last.row = row /\ Last.stage = STAGES[st])
    /\ (pc \in {"render", "user", "summary", "finally", "exit"} /\ Len(log) > 0) => Complete(Len(log))

\* send mode, two rows: the first pair of the second row is in transmission,
\* the three pairs of the first row are complete
C17_Witness ==
    /\ args.send
    /\ pc = "send"
    /\ Len(log) = 4
    /\ log[3].stage = "deadline" /\ log[3].row = 1 /\ log[3].delay = 1
    /\ log[4].stage = "interest" /\ log[4].row = 2 /\ log[4].raster = "ok" /\ log[4].send = "none"

\* C18: in send mode every transmission attempt, successful or not, is
\* followed by the fixed delay of one second before the next pair is taken
\* up or the loop ends.
C18_DelayAfterEveryAttempt ==
    args.send =>
        /\ \A i \in Entries :
              (log[i].send # "none" /\ (i < Len(log) \/ pc # "sleep")) => log[i].delay = 1
        /\ pc = "sleep" => (Last.send # "none" /\ Last.delay = 0)

\* a failed transmission and a successful one, both followed by the delay,
\* and a later pair taken up
C18_Witness ==
    /\ args.send
    /\ \E i, j \in Entries :
          /\ i < Len(log) /\ j < Len(log)
          /\ log[i].send = "failed" /\ log[i].delay = 1
          /\ log[j].send = "ok" /\ log[j].delay = 1

\* C19: nothing is retried: a (row, stage) pair is rendered at most once,
\* its primary renderer is tried at most once and send_photo is called for
\* it at most once, also when the call failed.
C19_NoRetry ==
    /\ \A i, j \in Entries :
          (log[i].row = log[j].row /\ log[i].stage = log[j].stage) => i = j
    /\ \A i \in Entries :
          /\ log[i].primary_calls <= 1
          /\ log[i].sends <= 1
          /\ log[i].send = "failed" => log[i].sends = 1
          /\ log[i].primary = "failed" => log[i].primary_calls = 1

\* a finished run with a failed transmission that was attempted once
C19_Witness ==
    /\ FunnelFinished
    /\ \E i \in Entries : log[i].send = "failed" /\ log[i].sends = 1 /\ i < Len(log)

\* C20: whenever the primary renderer fails (not installed, raises, leaves
\* no file) the drawing fallback is taken; when the fallback succeeds the
\* pair goes on with the file {stage}_{variant}_{id}.png in output/, the
\* name the primary path would have returned; the rasterization of a pair
\* fails only when the fallback failed.
C20_PrimaryFailureTakesFallback ==
    \A i \in Entries :
        /\ log[i].primary = "failed" => log[i].fallback # "none"
        /\ log[i].primary = "ok" => (log[i].fallback = "none" /\ log[i].raster = "ok")
        /\ log[i].fallback = "ok" =>
              /\ log[i].raster = "ok"
              /\ log[i].file = <<log[i].stage, log[i].variant, log[i].chat_id>>
              /\ log[i].file \in files
        /\ log[i].raster = "failed" <=> log[i].fallback = "failed"

\* the primary renderer failed on a pair, the fallback wrote its file and
\* the pair was transmitted
C20_Witness ==
    \E i \in Entries :
        /\ log[i].primary = "failed"
        /\ log[i].fallback = "ok"
        /\ log[i].file \in files
        /\ log[i].send = "ok"

\* the delivery loop is running
InLoop == pc \in {"user", "render", "rasterize", "send", "sleep"}

\* C21: once the delivery loop has started it ends: the final summary is
\* printed, exactly once, and when it is printed every pair of the table
\* has been handled completely, whatever render, rasterize or send
\* failures happened on the way.
C21_LoopReachesSummaryOnce ==
    /\ [](summaries <= 1)
    /\ [](summaries = 1 =>
            /\ pc \in {"finally", "exit"}
            /\ Len(log) = 3 * Len(users_df)
            /\ \A k \in Entries : Complete(k))
    /\ [](InLoop => summaries = 0)
    /\ InLoop ~> (summaries = 1)

\* a run whose rasterization failed on one pair has printed its summary
C21_Witness ==
    /\ summaries = 1
    /\ pc = "exit"
    /\ Len(log) = 6
    /\ \E i \in Entries : log[i].raster = "failed" /\ i < Len(log)

\* the profile has a text for the stage asked
HasText == "interest" \in DOMAIN cta.texts

\* the text is used as it is: it ends with ! or ?, or has one of the arrows
\* the code looks for, right or left
UsedAsIs(text) ==
    \/ Len(text) > 0 /\ text[Len(text)] \in {"!", "?"}
    \/ \E k \in 1..Len(text) : text[k] \in {"rarr", "larr"}

\* places where the icon stands in the text
Occurrences(text, icon) ==
    {i \in 1..Len(text) : i + Len(icon) - 1 <= Len(text) /\ SubSeq(text, i, i + Len(icon) - 1) = icon}

\* C22: the call-to-action text of a stage is the profile's cta.texts entry
\* for the stage, unchanged when it ends with ! or ? or has an arrow;
\* otherwise the icon is appended after one space when the icon is not
\* empty and not already in the text.  The rule applied to its own result
\* returns that result, and an icon that was not in the text stands in the
\* result once.
C22_CtaTextRuleIsIdempotent ==
    /\ (pc \in {"returned", "returned_again"} /\ HasText) =>
          LET text == cta.texts["interest"]
          IN /\ UsedAsIs(text) => cta_text = text
             /\ (~UsedAsIs(text) /\ cta.icon # <<>> /\ Occurrences(text, cta.icon) = {}) =>
                    /\ cta_text = text \o <<" ">> \o cta.icon
                    /\ Cardinality(Occurrences(cta_text, cta.icon)) = 1
             /\ (~UsedAsIs(text) /\ (cta.icon = <<>> \/ Occurrences(text, cta.icon) # {})) =>
                    cta_text = text
    /\ pc = "returned_again" =>
          /\ cta_again = cta_text
          /\ cta.icon # <<>> => Occurrences(cta_again, cta.icon) = Occurrences(cta_text, cta.icon)

\* a text without mark and arrow got the icon, and the second call left it
C22_Witness ==
    /\ pc = "returned_again"
    /\ HasText
    /\ cta.texts["interest"] = <<"G", "G">>
    /\ cta.icon = <<"star">>
    /\ cta_text = <<"G", "G", " ", "star">>
    /\ cta_again = cta_text

\* C23: after the load the profile is never changed: at every later point
\* of the run it is what load_profile returned, every pair is rendered from
\* the same brand.logo as the first pair, and the file:// address that the
\* asset rewriting produces goes to the rendered document only, brand.logo
\* of the profile staying the relative path.
C23_ProfileNeverMutated ==
    /\ pc \notin {"start", "load_profile"} =>
          (args.list_profiles \/ profile = load_profile(args.brand, yaml, disk))
    /\ \A i \in Entries :
          /\ log[i].brand_logo = log[1].brand_logo
          /\ profile.kind = "dict" => log[i].brand_logo = profile.brand_logo
          /\ (log[i].render = "ok" /\ log[i].brand_logo = <<"assets", "logo.png">>) =>
                /\ log[i].brand_data_logo = <<"file://", "assets", "logo.png">>
                /\ profile.brand_logo = <<"assets", "logo.png">>

\* a finished run of six pairs whose logo is an asset file: the last
\* document got the address, the profile still has the path
C23_Witness ==
    /\ summaries = 1
    /\ Len(log) = 6
    /\ log[1].render = "ok" /\ log[6].render = "ok"
    /\ log[6].brand_data_logo = <<"file://", "assets", "logo.png">>
    /\ profile.brand_logo = <<"assets", "logo.png">>
    /\ log[6].raster = "ok"

\* C24: in send mode send_photo is called for a pair only after the render
\* and the rasterization of that pair succeeded and returned the path of a
\* file that exists, and it is that path which is sent; a pair whose render
\* or rasterization failed is never transmitted and is followed by no delay.
C24_SendOnlyAfterArtifact ==
    /\ \A i \in Entries :
          /\ log[i].sends > 0 =>
                /\ args.send
                /\ log[i].render = "ok"
                /\ log[i].raster = "ok"
                /\ log[i].file # <<>>
                /\ log[i].file \in files
          /\ (log[i].render = "failed" \/ log[i].raster = "failed") =>
                /\ log[i].sends = 0
                /\ log[i].send = "none"
                /\ log[i].delay = 0
    /\ pc \in {"send", "sleep"} =>
          /\ Len(log) > 0
          /\ Last.render = "ok"
          /\ Last.raster = "ok"
          /\ png_path = Last.file
          /\ png_path \in files

\* send mode: one pair failed to rasterize and was passed over without
\* transmission and delay, a later pair was rasterized and is transmitted
C24_Witness ==
    /\ args.send
    /\ \E i, j \in Entries :
          /\ i < j
          /\ log[i].raster = "failed" /\ log[i].sends = 0 /\ log[i].delay = 0
          /\ log[j].raster = "ok" /\ log[j].sends = 1 /\ log[j].send = "ok"

\* sum of the per-variant counts
SumStats == variant_stats["a"] + variant_stats["b"] + variant_stats["c"]

\* pairs whose processing has ended
Handled ==
    {k \in Entries : log[k].counted \/ log[k].render = "failed" \/ log[k].raster = "failed"}

C25_Counters ==
    /\ SumStats = processed
    /\ \A v \in {"a", "b", "c"} :
          variant_stats[v] = Cardinality({k \in Entries : log[k].counted /\ log[k].variant = v})
    /\ processed <= Cardinality(Handled)
    /\ processed <= Len(STAGES) * Len(users_df)
    /\ pc \in {"user", "render", "rasterize", "send", "sleep", "summary"} =>
          total_messages = Len(STAGES) * Len(users_df)

C25_CountersStep ==
    /\ processed' \in {processed, processed + 1}
    /\ \A v \in {"a", "b", "c"} : variant_stats'[v] \in {variant_stats[v], variant_stats[v] + 1}
    /\ processed' = processed + 1 =>
          /\ Len(log') > 0
          /\ log'[Len(log')].counted
          /\ variant_stats'[log'[Len(log')].variant] = variant_stats[log'[Len(log')].variant] + 1
          /\ \A v \in {"a", "b", "c"} \ {log'[Len(log')].variant} : variant_stats'[v] = variant_stats[v]
    /\ processed' = processed => variant_stats' = variant_stats

\* C25: after every pair the per-variant counts of a, b and c add up to the
\* processed count, which is at most the number of pairs handled so far and
\* at most recipients x stages; every step leaves both counters alone or
\* adds one to the processed count and one to the count of the pair's
\* variant.
C25_CountersAgree == []C25_Counters /\ [][C25_CountersStep]_vars

\* a finished run of six pairs, one of them not counted, with pairs of two
\* variants counted
C25_Witness ==
    /\ summaries = 1
    /\ total_messages = 6
    /\ processed = 5
    /\ \E v, w \in {"a", "b", "c"} : v # w /\ variant_stats[v] > 0 /\ variant_stats[w] > 0

\* points of main before line 210
StartupPoints == {"start", "load_profile", "check_token", "load_users", "create_bot"}

\* the run gets as far as line 210, where the client is created
BotCreated == token /\ ~args.list_profiles /\ TableUsable /\ pc \notin StartupPoints

\* C26: whenever the bot client has been created its session is closed
\* before the program exits, after the loop ended normally and after an
\* error left send_funnel and main exits with code 1; when the run stops
\* before the client is created (--list-profiles, no token, table not
\* loaded or empty) there is no client and no session is closed.
C26_SessionClosedOnEveryExit ==
    /\ pc = "exit" => bot # "open"
    /\ (pc = "exit" /\ BotCreated) => bot = "closed"
    /\ ~BotCreated => bot = "none"
    /\ bot = "closed" => (pc = "exit" /\ BotCreated)
    /\ (pc = "exit" /\ ~args.list_profiles /\ ~token) => (bot = "none" /\ exit_code = 1)
    /\ (pc = "exit" /\ token /\ ~args.list_profiles /\ ~TableUsable) =>
          (bot = "none" /\ exit_code = 1)

\* an error left the loop with the client created: exit code 1, session
\* closed
C26_Witness ==
    /\ pc = "exit"
    /\ exit_code = 1
    /\ BotCreated
    /\ bot = "closed"

====
